---- MODULE Spec2Model ----
(***************************************************************************)
(* Model of gamry_parser's VFP600 table extractor (vfp600.py,              *)
(* VFP600._read_curve_data) and of the experiment accessors                *)
(* (vfp600.py VFP600.curve / sample_time / sample_count, eispot.py         *)
(* Impedance.curve).                                                       *)
(*                                                                         *)
(* Text is modelled as a sequence of one-character strings, so that        *)
(* readline, strip, split and the CURVE search are computed on characters. *)
(***************************************************************************)
EXTENDS Integers, Sequences, FiniteSets, TLC

VARIABLES
    fid,        \* the stream: [buf |-> characters, at |-> read position]
    sections,   \* the table sections the stream was built from (<<>> when built from raw lines)
    pc,         \* position inside _read_curve_data / of its caller
    curve,      \* local "curve": the accumulated text block
    units,      \* local "units": list of strings
    cur_line,   \* local "cur_line"
    pos,        \* local "pos"
    returned,   \* what the calls made so far returned, in call order
    loaded,     \* GamryParser.loaded
    header,     \* GamryParser._header, reduced to its FREQ entry
    curves,     \* GamryParser._curves
    klass,      \* the class of the object: "Impedance" or "VFP600"
    file,       \* header and curves of the file the object loads
    result      \* outcome of the last public operation on the object

vars == <<fid, sections, pc, curve, units, cur_line, pos, returned,
          loaded, header, curves, klass, file, result>>

extractorVars == <<fid, sections, pc, curve, units, cur_line, pos, returned>>
objectVars == <<loaded, header, curves, klass, file, result>>

-----------------------------------------------------------------------------
(* Bounds of the model *)

MaxLines == 4
MaxCalls == 3
MaxSections == 2
MaxData == 2
MaxCurves == 2
MaxRows == 2

-----------------------------------------------------------------------------
(* Characters and text primitives *)

TAB == "\t"
NL == "\n"
SP == " "

\* str.strip() with no argument removes leading and trailing whitespace
Whitespace == {SP, TAB, NL, "\r"}

\* the pattern of re.search(r"CURVE", cur_line)
CURVE == <<"C", "U", "R", "V", "E">>

RECURSIVE lstrip(_)
lstrip(s) ==
    IF s = <<>> \/ Head(s) \notin Whitespace THEN s ELSE lstrip(Tail(s))

RECURSIVE rstrip(_)
rstrip(s) ==
    IF s = <<>> \/ s[Len(s)] \notin Whitespace THEN s
    ELSE rstrip(SubSeq(s, 1, Len(s) - 1))

strip_left_only(s) == lstrip(s)

strip(s) == rstrip(lstrip(s))

\* index of the first occurrence of character c in s after position from, 0 if none
FirstAt(s, c, from) ==
    LET hits == {k \in (from + 1)..Len(s) : s[k] = c}
    IN  IF hits = {} THEN 0 ELSE CHOOSE k \in hits : \A j \in hits : k <= j

\* str.split(sep): always at least one field; empty fields are kept
RECURSIVE split(_, _)
split(s, sep) ==
    LET k == FirstAt(s, sep, 0)
    IN  IF k = 0 THEN <<s>>
        ELSE <<SubSeq(s, 1, k - 1)>> \o split(SubSeq(s, k + 1, Len(s)), sep)

\* re.search(pattern, s) for a literal pattern: substring anywhere in s
re_search_anchored(pattern, s) ==
    Len(s) >= Len(pattern) /\ SubSeq(s, 1, Len(pattern)) = pattern

re_search(pattern, s) ==
    \E i \in 1..(Len(s) - Len(pattern) + 1) :
        SubSeq(s, i, i + Len(pattern) - 1) = pattern

\* fid.tell()
tell(f) == f.at

\* fid.readline(): the characters up to and including the next newline, or up
\* to the end of the stream; the empty string, position unchanged, at the end.
readline(f) ==
    IF f.at >= Len(f.buf) THEN [line |-> <<>>, f |-> f]
    ELSE LET k == FirstAt(f.buf, NL, f.at)
             e == IF k = 0 THEN Len(f.buf) ELSE k
         IN  [line |-> SubSeq(f.buf, f.at + 1, e), f |-> [f EXCEPT !.at = e]]

\* pd.DataFrame()
EmptyFrame == [columns |-> <<>>, rows |-> <<>>]

\* pd.read_csv(StringIO(text), delimiter="\t", header=0): the first line names
\* the columns, every later line that is not blank is one row (pandas skips
\* blank lines); cells stay text, and pandas' handling of ragged rows and of
\* duplicate or empty column names is not modelled.  The block always starts
\* with a non-empty column-name line, so the branch for a text without any
\* line is never taken.
read_csv(text) ==
    LET ls == SelectSeq(split(text, NL), LAMBDA l : l # <<>>)
    IN  IF ls = <<>> THEN EmptyFrame
        ELSE [columns |-> split(Head(ls), TAB),
              rows |-> [i \in 1..(Len(ls) - 1) |-> split(ls[i + 1], TAB)]]

\* list[1:]
Tail1_keep(l) == l

Tail1(l) == IF l = <<>> THEN <<>> ELSE Tail(l)

-----------------------------------------------------------------------------
(* Input streams *)

L_blank == <<>>
L_space == <<SP>>
L_a == <<"a">>
L_tab_a_b_tab == <<TAB, "a", TAB, "b", TAB>>
L_a_tab == <<"a", TAB, TAB>>
L_curve == <<TAB, "C", "U", "R", "V", "E", TAB, "a">>
L_col2 == <<TAB, "x", TAB, "y">>
L_unit2 == <<TAB, "#", TAB, "V">>
L_one_two == <<TAB, "1", TAB, "2">>
L_sentinel == <<TAB, "O", "C", "U", "R", "V", "E", TAB, "T">>

\* lines a raw stream is made of
LineSet == {L_blank, L_space, L_a, L_tab_a_b_tab, L_curve}

RECURSIVE SeqsUpTo(_, _)
SeqsUpTo(S, n) ==
    IF n = 0 THEN {<<>>}
    ELSE LET shorter == SeqsUpTo(S, n - 1)
         IN  shorter \cup {Append(q, x) : q \in {r \in shorter : Len(r) = n - 1}, x \in S}

\* the lines, each ended by a newline; the last one only when finalNL
RECURSIVE JoinLines(_, _)
JoinLines(ls, finalNL) ==
    IF ls = <<>> THEN <<>>
    ELSE IF Len(ls) = 1 THEN (IF finalNL THEN Head(ls) \o <<NL>> ELSE Head(ls))
    ELSE Head(ls) \o <<NL>> \o JoinLines(Tail(ls), finalNL)

\* well-formed table sections: column-name line, units line, data lines, sentinel
ColLines == {L_col2, L_a}
UnitLines == {L_unit2}
DataLines == {L_one_two, L_a_tab}
SentinelLines == {L_sentinel}

SectionSet ==
    [col : ColLines, units : UnitLines, data : SeqsUpTo(DataLines, MaxData),
     sentinel : SentinelLines]

SectionLines(s) == <<s.col, s.units>> \o s.data \o <<s.sentinel>>

RECURSIVE DataCount(_)
DataCount(secs) ==
    IF secs = <<>> THEN 0 ELSE Len(Head(secs).data) + DataCount(Tail(secs))

\* at most MaxSections sections holding at most MaxData data lines in all
SectionSeqs == {secs \in SeqsUpTo(SectionSet, MaxSections) : DataCount(secs) <= MaxData}

RECURSIVE StreamOf(_)
StreamOf(secs) ==
    IF secs = <<>> THEN <<>>
    ELSE JoinLines(SectionLines(Head(secs)), TRUE) \o StreamOf(Tail(secs))

-----------------------------------------------------------------------------
(* The table extractor, VFP600._read_curve_data, one action per step *)

NoObject ==
    /\ loaded = FALSE
    /\ header = [kind |-> "absent"]
    /\ curves = <<>>
    /\ klass = "VFP600"
    /\ file = [header |-> [kind |-> "absent"], curves |-> <<>>]
    /\ result = [op |-> "none", kind |-> "none"]

ExtractorIdle ==
    /\ pc = "call"
    /\ curve = <<>>
    /\ units = <<>>
    /\ cur_line = <<>>
    /\ pos = 0
    /\ returned = <<>>

\* a stream of arbitrary lines, positioned at its start
Init ==
    /\ \E ls \in SeqsUpTo(LineSet, MaxLines), finalNL \in BOOLEAN :
           fid = [buf |-> JoinLines(ls, finalNL), at |-> 0]
    /\ sections = <<>>
    /\ ExtractorIdle
    /\ NoObject

\* a stream made of well-formed sections, positioned at its start
InitWF ==
    /\ \E secs \in SectionSeqs :
           /\ sections = secs
           /\ fid = [buf |-> StreamOf(secs), at |-> 0]
    /\ ExtractorIdle
    /\ NoObject

Return(keys, us, frame, f) ==
    /\ returned' = Append(returned, [keys |-> keys, units |-> us, curve |-> frame, at |-> tell(f)])
    /\ pc' = "done"

\* lines 94-97: pos = 0; curve = fid.readline().strip() + "\n"; empty result if blank
ReadHeaderLine ==
    /\ pc = "call"
    /\ LET r == readline(fid)
           c == strip(r.line) \o <<NL>>
       IN  /\ fid' = r.f
           /\ pos' = 0
           /\ curve' = c
           /\ IF Len(c) <= 1
              THEN Return(<<>>, <<>>, EmptyFrame, r.f)
              ELSE pc' = "units" /\ UNCHANGED returned
    /\ UNCHANGED <<sections, units, cur_line, objectVars>>

\* lines 99-100: units line split on tabs, then the first candidate data line
ReadUnitsLine ==
    /\ pc = "units"
    /\ LET r1 == readline(fid)
           r2 == readline(r1.f)
       IN  /\ units' = split(strip(r1.line), TAB)
           /\ cur_line' = strip(r2.line)
           /\ fid' = r2.f
    /\ pc' = "while"
    /\ UNCHANGED <<sections, curve, pos, returned, objectVars>>

\* line 101: while not re.search(r"CURVE", cur_line)
LoopTest ==
    /\ pc = "while"
    /\ pc' = IF re_search(CURVE, cur_line) THEN "parse" ELSE "body"
    /\ UNCHANGED <<fid, sections, curve, units, cur_line, pos, returned, objectVars>>

\* lines 102-106: append the line, read the next, break when the position stalls
LoopBodyDropLast ==
    /\ pc = "body"
    /\ LET r == readline(fid)
           stalled == tell(r.f) = tell(fid)
       IN  /\ curve' = IF stalled THEN curve ELSE curve \o cur_line \o <<NL>>
           /\ pos' = tell(fid)
           /\ cur_line' = strip(r.line)
           /\ fid' = r.f
           /\ pc' = IF stalled THEN "parse" ELSE "while"
    /\ UNCHANGED <<sections, units, returned, objectVars>>

LoopBodyNoBreak ==
    /\ pc = "body"
    /\ LET r == readline(fid)
       IN  /\ curve' = curve \o cur_line \o <<NL>>
           /\ pos' = tell(fid)
           /\ cur_line' = strip(r.line)
           /\ fid' = r.f
           /\ pc' = "while"
    /\ UNCHANGED <<sections, units, returned, objectVars>>

LoopBody ==
    /\ pc = "body"
    /\ LET r == readline(fid)
       IN  /\ curve' = curve \o cur_line \o <<NL>>
           /\ pos' = tell(fid)
           /\ cur_line' = strip(r.line)
           /\ fid' = r.f
           /\ pc' = IF tell(r.f) = tell(fid) THEN "parse" ELSE "while"
    /\ UNCHANGED <<sections, units, returned, objectVars>>

\* lines 108-112: parse the block, drop the first unit, return
ParseBlock ==
    /\ pc = "parse"
    /\ LET frame == read_csv(curve)
       IN  Return(frame.columns, Tail1(units), frame, fid)
    /\ units' = Tail1(units)
    /\ UNCHANGED <<fid, sections, curve, cur_line, pos, objectVars>>

\* the caller invokes the extractor again on the same stream
CallAgain ==
    /\ pc = "done"
    /\ Len(returned) < MaxCalls
    /\ pc' = "call"
    /\ UNCHANGED <<fid, sections, curve, units, cur_line, pos, returned, objectVars>>

Next ==
    \/ ReadHeaderLine
    \/ ReadUnitsLine
    \/ LoopTest
    \/ LoopBody
    \/ ParseBlock
    \/ CallAgain

Spec == Init /\ [][Next]_vars

SpecWF == InitWF /\ [][Next]_vars

-----------------------------------------------------------------------------
(* The parsed object and its accessors *)

\* header["FREQ"]: missing, a number, or a string
FreqEntries ==
    {[kind |-> "absent"]}
        \cup {[kind |-> "num", num |-> n] : n \in {0, 2, 4}}
        \cup {[kind |-> "str", str |-> t] : t \in {"", "100"}}

\* exact fractions num/den in lowest terms, den > 0
RECURSIVE Gcd(_, _)
Gcd(a, b) == IF b = 0 THEN a ELSE Gcd(b, a % b)

Frac(n, d) ==
    IF n = 0 THEN [num |-> 0, den |-> 1]
    ELSE LET g == Gcd(n, d) IN [num |-> n \div g, den |-> d \div g]

Zero == Frac(0, 1)

\* column layouts of the tables a load can store
VFPColumns == {<<"Voltage", "Current">>, <<"T", "Voltage", "Current">>, <<"T", "Voltage">>}
EISColumns ==
    {<<"Pt", "T", "Freq", "Zreal", "Zimag", "Zsig", "Zmod", "Zphz">>, <<"Pt", "T", "Vf", "Im">>}

Range(q) == {q[i] : i \in DOMAIN q}

\* a stored curve table: its columns, its rows (row index 0..nrows-1), the
\* section of the file it came from, and the cells of its T column; the cells
\* of the other columns are fixed by tag, column and row
FileT(cols, n) ==
    IF "T" \in Range(cols) THEN [i \in 1..n |-> [file |-> i - 1]] ELSE <<>>

FileTable(cols, n, k) == [columns |-> cols, nrows |-> n, tag |-> k, T |-> FileT(cols, n)]

\* the curves of one file share their columns
FileCurves(layouts) ==
    UNION {[1..c -> {cols} \X (0..MaxRows)] : c \in 0..MaxCurves, cols \in layouts}

\* list[index] of Python: 1-based position of the element, 0 when out of range
PyIndex_no_negative(l, index) ==
    IF 0 <= index /\ index < Len(l) THEN index + 1 ELSE 0

PyIndex(l, index) ==
    IF 0 <= index /\ index < Len(l) THEN index + 1
    ELSE IF -Len(l) <= index /\ index < 0 THEN Len(l) + index + 1
    ELSE 0

\* df[[...]]: a new table with the named columns; a key error if one is missing
Project(t, cols) ==
    IF Range(cols) \subseteq Range(t.columns)
    THEN [kind |-> "ok",
          value |-> [columns |-> cols, nrows |-> t.nrows, tag |-> t.tag,
                     T |-> IF "T" \in Range(cols) THEN t.T ELSE <<>>]]
    ELSE [kind |-> "KeyError"]

\* vfp600.py line 51, df["T"] = df.index * self.sample_time, on the stored table
SetT_on_copy(t, st) == t

SetT(t, st) ==
    [t EXCEPT !.columns = IF "T" \in Range(@) THEN @ ELSE Append(@, "T"),
              !.T = [i \in 1..t.nrows |-> Frac((i - 1) * st.num, st.den)]]

\* VFP600.sample_time, lines 65-67: 1 / freq if freq else 0
sample_time(h) ==
    CASE h.kind = "absent" -> [kind |-> "ok", value |-> Zero]
      [] h.kind = "num" /\ h.num = 0 -> [kind |-> "ok", value |-> Zero]
      [] h.kind = "num" /\ h.num # 0 -> [kind |-> "ok", value |-> Frac(1, h.num)]
      [] h.kind = "str" /\ h.str = "" -> [kind |-> "ok", value |-> Zero]
      [] h.kind = "str" /\ h.str # "" -> [kind |-> "TypeError"]

\* VFP600.sample_count, line 81: len(self._curves[curve - 1].index) if len(self._curves) > 0 else 0
sample_count(cs, index) ==
    IF Len(cs) > 0 THEN cs[PyIndex(cs, index - 1)].nrows ELSE 0

\* a freshly constructed Impedance or VFP600 object, and the file it is given
InitObject ==
    /\ klass \in {"Impedance", "VFP600"}
    /\ \E h \in FreqEntries,
          f \in FileCurves(IF klass = "VFP600" THEN VFPColumns ELSE EISColumns) :
           file = [header |-> h,
                   curves |-> [k \in DOMAIN f |-> FileTable(f[k][1], f[k][2], k)]]
    /\ loaded = FALSE
    /\ header = [kind |-> "absent"]
    /\ curves = <<>>
    /\ result = [op |-> "none", kind |-> "none"]
    /\ fid = [buf |-> <<>>, at |-> 0]
    /\ sections = <<>>
    /\ ExtractorIdle

\* load: header and curves replaced wholesale, loaded set
Load ==
    /\ header' = file.header
    /\ curves' = file.curves
    /\ loaded' = TRUE
    /\ result' = [op |-> "load", kind |-> "ok"]
    /\ UNCHANGED <<klass, file, extractorVars>>

\* load of an unreadable file on a fresh object: the object stays Unloaded
LoadFails ==
    /\ ~loaded
    /\ result' = [op |-> "load", kind |-> "FileError"]
    /\ UNCHANGED <<loaded, header, curves, klass, file, extractorVars>>

\* arguments tried for curve(index)
Indexes == (0 - MaxCurves - 1)..(MaxCurves + 1)

\* the loaded guard of both curve accessors: assert self.loaded, "..."
NotLoadedGuard_missing(l) == FALSE

NotLoadedGuard(l) == ~l

\* Impedance.curve, eispot.py lines 24-26
ImpedanceCurve(index) ==
    /\ klass = "Impedance"
    /\ LET k == PyIndex(curves, index)
       IN  result' =
               IF NotLoadedGuard(loaded) THEN [op |-> "curve", arg |-> index, kind |-> "NotLoaded"]
               ELSE IF k = 0 THEN [op |-> "curve", arg |-> index, kind |-> "IndexError"]
               ELSE [op |-> "curve", arg |-> index]
                        @@ Project(curves[k], <<"T", "Freq", "Zreal", "Zimag", "Zmod", "Zphz">>)
    /\ UNCHANGED <<loaded, header, curves, klass, file, extractorVars>>

\* VFP600.curve, vfp600.py lines 49-52
VFPCurve(index) ==
    /\ klass = "VFP600"
    /\ LET k == PyIndex(curves, index)
           st == sample_time(header)
       IN  IF NotLoadedGuard(loaded)
           THEN /\ result' = [op |-> "curve", arg |-> index, kind |-> "NotLoaded"]
                /\ UNCHANGED curves
           ELSE IF k = 0
           THEN /\ result' = [op |-> "curve", arg |-> index, kind |-> "IndexError"]
                /\ UNCHANGED curves
           ELSE IF st.kind # "ok"
           THEN /\ result' = [op |-> "curve", arg |-> index, kind |-> st.kind]
                /\ UNCHANGED curves
           ELSE /\ curves' = [curves EXCEPT ![k] = SetT(@, st.value)]
                /\ result' = [op |-> "curve", arg |-> index]
                                 @@ Project(SetT(curves[k], st.value), <<"T", "Voltage", "Current">>)
    /\ UNCHANGED <<loaded, header, klass, file, extractorVars>>

\* the property VFP600.sample_time
SampleTime ==
    /\ klass = "VFP600"
    /\ result' = [op |-> "sample_time"] @@ sample_time(header)
    /\ UNCHANGED <<loaded, header, curves, klass, file, extractorVars>>

\* the property VFP600.sample_count; a property takes no argument, so its
\* parameter curve always has its default, 0
SampleCount ==
    /\ klass = "VFP600"
    /\ result' = [op |-> "sample_count", arg |-> 0, kind |-> "ok",
                  value |-> sample_count(curves, 0)]
    /\ UNCHANGED <<loaded, header, curves, klass, file, extractorVars>>

NextObject ==
    \/ Load
    \/ LoadFails
    \/ \E index \in Indexes : ImpedanceCurve(index)
    \/ \E index \in Indexes : VFPCurve(index)
    \/ SampleTime
    \/ SampleCount

SpecObject == InitObject /\ [][NextObject]_vars

-----------------------------------------------------------------------------
(* Reference notions the extractor's properties are stated with, defined    *)
(* directly on the characters and independently of the operators above      *)

\* s without its leading and trailing whitespace characters
Trimmed(s) ==
    LET keep == {i \in 1..Len(s) : s[i] \notin Whitespace}
    IN  IF keep = {} THEN <<>>
        ELSE SubSeq(s, CHOOSE i \in keep : \A j \in keep : i <= j,
                       CHOOSE i \in keep : \A j \in keep : j <= i)

\* the tab-separated fields of s
Fields(s) ==
    LET tabs == {i \in 1..Len(s) : s[i] = TAB}
        cut(n) == IF n = 0 THEN 0
                  ELSE IF n > Cardinality(tabs) THEN Len(s) + 1
                  ELSE CHOOSE i \in tabs : Cardinality({j \in tabs : j < i}) = n - 1
    IN  [n \in 1..(Cardinality(tabs) + 1) |-> SubSeq(s, cut(n - 1) + 1, cut(n) - 1)]

NFields(s) == 1 + Cardinality({i \in 1..Len(s) : s[i] = TAB})

HasCURVE(s) ==
    \E i \in 1..Len(s) : i + 4 <= Len(s) /\ <<s[i], s[i+1], s[i+2], s[i+3], s[i+4]>> = CURVE

\* the lines of the stream from character position p on, without their newlines
LinesFrom(p) ==
    LET n == Len(fid.buf)
        ends == {i \in (p + 1)..n : fid.buf[i] = NL} \cup (IF p < n /\ fid.buf[n] # NL THEN {n + 1} ELSE {})
        endOf(k) == CHOOSE i \in ends : Cardinality({j \in ends : j < i}) = k - 1
        startOf(k) == IF k = 1 THEN p + 1 ELSE endOf(k - 1) + 1
    IN  [k \in 1..Cardinality(ends) |-> SubSeq(fid.buf, startOf(k), endOf(k) - 1)]

LineOr(ls, k) == IF k <= Len(ls) THEN ls[k] ELSE <<>>

\* where call number k started reading
StartOf(k) == IF k = 1 THEN 0 ELSE returned[k - 1].at

\* the lines that follow the units line of the table call number k reads
BodyLines(k) ==
    LET ls == LinesFrom(StartOf(k))
    IN  IF Len(ls) <= 2 THEN <<>> ELSE SubSeq(ls, 3, Len(ls))

\* the lines of BodyLines(k) before the first one holding CURVE
UpToSentinel(ls) ==
    LET hits == {i \in 1..Len(ls) : HasCURVE(Trimmed(ls[i]))}
    IN  IF hits = {} THEN ls
        ELSE SubSeq(ls, 1, (CHOOSE i \in hits : \A j \in hits : i <= j) - 1)

RECURSIVE Concat(_)
Concat(ss) == IF ss = <<>> THEN <<>> ELSE Head(ss) \o Concat(Tail(ss))

EmptyResult(r) == r.keys = <<>> /\ r.units = <<>> /\ r.curve = EmptyFrame

-----------------------------------------------------------------------------
(* C1 *)

\* C1 as stated: every result of the table extractor has exactly one unit
\* fewer than it has column names, len(units) = len(column_names) - 1.
C1_UnitsOneFewer ==
    \A k \in 1..Len(returned) : Len(returned[k].units) = Len(returned[k].keys) - 1

\* C1 amended: the empty result has no column names and no units; any other
\* result has one column name per tab-separated field of the stripped
\* column-name line and one unit per field of the stripped units line but the
\* first, so the units are one fewer than the column names exactly when the
\* two lines have the same number of fields.
C1_UnitsLength ==
    \A k \in 1..Len(returned) :
        LET ls == LinesFrom(StartOf(k))
            col == Trimmed(LineOr(ls, 1))
            un == Trimmed(LineOr(ls, 2))
            r == returned[k]
        IN  IF col = <<>> THEN EmptyResult(r)
            ELSE /\ Len(r.keys) = NFields(col)
                 /\ Len(r.units) = NFields(un) - 1
                 /\ (Len(r.units) = Len(r.keys) - 1) <=> (NFields(un) = NFields(col))

C1_Witness ==
    /\ Len(returned) = 3
    /\ Len(returned[1].keys) = 2 /\ Len(returned[1].units) = 1
    /\ Len(returned[2].keys) = 2 /\ Len(returned[2].units) = 0
    /\ EmptyResult(returned[3])

-----------------------------------------------------------------------------
(* C2 *)

-----------------------------------------------------------------------------
(* C8 *)

NoSentinel(k) == \A i \in 1..Len(BodyLines(k)) : ~HasCURVE(Trimmed(BodyLines(k)[i]))

NonEmptyPath(k) == Trimmed(LineOr(LinesFrom(StartOf(k)), 1)) # <<>>

-----------------------------------------------------------------------------
(* C9 *)

\* what is left of a call: twice the unread characters plus the rank of the
\* step the call is at; a natural number
StepRank ==
    CASE pc = "done" -> 0
      [] pc = "parse" -> 1
      [] pc = "body" -> 2
      [] pc = "while" -> 3
      [] pc = "units" -> 4
      [] pc = "call" -> 5

Remaining == 2 * (Len(fid.buf) - tell(fid)) + StepRank

\* C9: a call of the extractor terminates: a call is always at one of its
\* steps (each of which can be taken), and every step of a call lowers
\* Remaining, which never goes below zero; every
\* iteration of the loop advances the stream or leaves the loop, the loop is
\* left by its test exactly when the current line holds CURVE and by its body
\* exactly when the line read left the position unchanged.
C9_LoopTerminates ==
    /\ [](pc \in {"call", "units", "while", "body", "parse", "done"})
    /\ [][pc # "done" => (Remaining' < Remaining /\ Remaining' >= 0)]_vars
    /\ [][pc = "body" =>
            \/ tell(fid') > tell(fid) /\ pc' = "while"
            \/ tell(fid') = tell(fid) /\ pc' = "parse"]_vars
    /\ [][pc = "while" =>
            \/ HasCURVE(cur_line) /\ pc' = "parse"
            \/ ~HasCURVE(cur_line) /\ pc' = "body"]_vars

C9_Witness ==
    /\ pc = "parse"
    /\ tell(fid) = Len(fid.buf)
    /\ pos = tell(fid)
    /\ Len(LinesFrom(0)) = 4
    /\ ~HasCURVE(cur_line)

-----------------------------------------------------------------------------
(* C10 *)

CurrentCall == Len(returned) + 1

\* C10 as stated: the block handed to the parser is the column-name line and
\* every data line exactly as read from the stream, each ended by a newline.
C10_BlockVerbatim ==
    pc = "parse" =>
        LET ls == LinesFrom(StartOf(CurrentCall))
        IN  curve = ls[1] \o <<NL>>
                    \o Concat([j \in 1..Len(UpToSentinel(BodyLines(CurrentCall))) |->
                                  UpToSentinel(BodyLines(CurrentCall))[j] \o <<NL>>])

\* C10 amended: the block is the column-name line and every data line, each
\* with its leading and trailing whitespace (tabs included) removed and ended
\* by a newline, without the units line; when the stream ends at the units
\* line one empty line follows the column-name line.
C10_BlockStripped ==
    pc = "parse" =>
        LET ls == LinesFrom(StartOf(CurrentCall))
            body == UpToSentinel(BodyLines(CurrentCall))
        IN  curve = Trimmed(ls[1]) \o <<NL>>
                    \o Concat([j \in 1..Len(body) |-> Trimmed(body[j]) \o <<NL>>])
                    \o (IF BodyLines(CurrentCall) = <<>> THEN <<NL>> ELSE <<>>)

C10_Witness ==
    /\ pc = "parse"
    /\ Len(returned) = 0
    /\ Len(BodyLines(1)) = 2
    /\ Trimmed(LinesFrom(0)[1]) = <<"a">>
    /\ BodyLines(1)[1] = L_tab_a_b_tab
    /\ BodyLines(1)[2] = L_space
    /\ curve = <<"a", NL, "a", TAB, "b", NL, NL>>

-----------------------------------------------------------------------------
(* Reference notions the accessors' properties are stated with *)

Accessors == {"curve", "sample_time", "sample_count"}

EISProjection == <<"T", "Freq", "Zreal", "Zimag", "Zmod", "Zphz">>
VFPProjection == <<"T", "Voltage", "Current">>

HasColumns(t, cols) == \A i \in 1..Len(cols) : \E j \in 1..Len(t.columns) : t.columns[j] = cols[i]

\* c is the number row * period, the period being 1/FREQ for a non-zero
\* number FREQ and 0 for a missing, zero or empty FREQ
IsRowTime(c, row, h) ==
    /\ DOMAIN c = {"num", "den"}
    /\ IF h.kind = "num" /\ h.num # 0
       THEN c.den >= 1 /\ c.num * h.num = row * c.den
       ELSE c.num = 0 /\ c.den = 1

\* t2 is t1 with its T column set to row index times sample period
IsRetimed(t1, t2, h) ==
    /\ t2.nrows = t1.nrows
    /\ t2.tag = t1.tag
    /\ HasColumns(t2, <<"T">>)
    /\ \A i \in 1..Len(t1.columns) : t2.columns[i] = t1.columns[i]
    /\ Len(t2.columns) = Len(t1.columns) + (IF HasColumns(t1, <<"T">>) THEN 0 ELSE 1)
    /\ Len(t2.T) = t1.nrows
    /\ \A i \in 1..t1.nrows : IsRowTime(t2.T[i], i - 1, h)

\* v is the projection of table t on the columns cols
IsProjection(v, t, cols) ==
    /\ v.columns = cols
    /\ v.nrows = t.nrows
    /\ v.tag = t.tag
    /\ v.T = t.T

RaisesOnFreq(h) == h.kind = "str" /\ h.str # ""

-----------------------------------------------------------------------------
(* C3 *)

\* C3 as stated: while the object is Unloaded every accessor (curve,
\* sample_time, sample_count) fails with the not-loaded error and changes nothing.
C3_EveryAccessorGuarded ==
    [][(~loaded /\ result'.op \in Accessors) =>
          (result'.kind = "NotLoaded" /\ UNCHANGED <<header, curves, loaded>>)]_vars

\* C3 amended: while the object is Unloaded, Impedance.curve and VFP600.curve
\* fail with the not-loaded error before reading or changing any curve;
\* sample_time and sample_count have no such guard and return 0 on the
\* object, also without changing anything.
C3_CurveGuarded ==
    [][~loaded =>
          /\ result'.op = "curve" => result'.kind = "NotLoaded"
          /\ result'.op = "sample_time" => (result'.kind = "ok" /\ result'.value = [num |-> 0, den |-> 1])
          /\ result'.op = "sample_count" => (result'.kind = "ok" /\ result'.value = 0)
          /\ result'.op \in Accessors => UNCHANGED <<header, curves, loaded>>]_vars

C3_Witness ==
    /\ ~loaded
    /\ klass = "VFP600"
    /\ file.curves # <<>>
    /\ result.op = "curve"
    /\ result.arg = 0
    /\ result.kind = "NotLoaded"

-----------------------------------------------------------------------------
(* C4 *)

\* C4 as stated: on a Loaded object curve(index) fails with an index-range
\* error, the curves unchanged, for every index outside [0, count), and
\* returns the projection of the curve at position index otherwise (taken
\* here on tables that hold the projected columns and a FREQ that is no
\* string, where the projection itself cannot fail).
C4_IndexOutsideRangeFails ==
    [][(/\ loaded
        /\ result'.op = "curve"
        /\ ~RaisesOnFreq(header)
        /\ \A k \in 1..Len(curves) :
               HasColumns(curves[k], IF klass = "VFP600" THEN <<"Voltage", "Current">>
                                     ELSE EISProjection)) =>
          IF result'.arg < 0 \/ result'.arg >= Len(curves)
          THEN result'.kind = "IndexError" /\ UNCHANGED curves
          ELSE /\ result'.kind = "ok"
               /\ result'.value.tag = curves[result'.arg + 1].tag
               /\ result'.value.columns = IF klass = "VFP600" THEN VFPProjection ELSE EISProjection]_vars

\* C4 amended: on a Loaded object holding count curves, curve(index) fails
\* with an index-range error, the stored curves unchanged, exactly when
\* index >= count or index < -count; an index in [-count, 0) selects the
\* curve at position count + index and an index in [0, count) the curve at
\* position index.  Impedance.curve returns the projection of the selected
\* curve; VFP600.curve returns the [T, Voltage, Current] projection of the
\* selected curve with T set to row index times sample period.  Either raises
\* a key error when the table lacks a projected column, and VFP600.curve
\* raises the type error of sample_time when FREQ is a non-empty string.
C4_IndexSelectsCurve ==
    [][(loaded /\ result'.op = "curve") =>
          LET n == Len(curves)
              i == result'.arg
              k == IF i >= 0 THEN i + 1 ELSE n + i + 1
          IN  IF i >= n \/ i < 0 - n
              THEN result'.kind = "IndexError" /\ UNCHANGED curves
              ELSE IF klass = "Impedance"
              THEN /\ UNCHANGED curves
                   /\ IF HasColumns(curves[k], EISProjection)
                      THEN result'.kind = "ok" /\ IsProjection(result'.value, curves[k], EISProjection)
                      ELSE result'.kind = "KeyError"
              ELSE IF RaisesOnFreq(header)
              THEN result'.kind = "TypeError" /\ UNCHANGED curves
              ELSE IF HasColumns(curves[k], <<"Voltage", "Current">>)
              THEN /\ result'.kind = "ok"
                   /\ IsProjection(result'.value, curves'[k], VFPProjection)
                   /\ IsRetimed(curves[k], curves'[k], header)
              ELSE result'.kind = "KeyError"]_vars

C4_Witness ==
    /\ loaded
    /\ Len(curves) = 2
    /\ result.op = "curve"
    /\ result.arg = -1
    /\ result.kind = "ok"
    /\ result.value.tag = 2

-----------------------------------------------------------------------------
(* C5 *)

\* C5: sample_time returns 1 / FREQ when FREQ is present and not zero,
\* returns 0 when FREQ is missing or zero, and raises for no header value,
\* number or string.
C5_SampleTimeNeverRaises ==
    result.op = "sample_time" =>
        /\ result.kind = "ok"
        /\ IF header.kind = "num" /\ header.num # 0
           THEN result.value.num * header.num = result.value.den /\ result.value.den >= 1
           ELSE result.value = [num |-> 0, den |-> 1]

-----------------------------------------------------------------------------
(* C6 *)

\* C6: sample_count for a curve index returns the number of rows of the
\* curve at that 0-based index, the curve that curve(index) selects, and 0
\* when no curves were parsed.
C6_SampleCountOfSelectedCurve ==
    result.op = "sample_count" =>
        result.value = IF Len(curves) = 0 THEN 0 ELSE curves[result.arg + 1].nrows

-----------------------------------------------------------------------------
(* C7 *)

\* C7 as stated: after a successful load no accessor call changes the header
\* or any stored curve table.
C7_AccessorsChangeNothing ==
    [][(loaded /\ result'.op \in Accessors) => UNCHANGED <<header, curves>>]_vars

\* C7 amended: after a successful load, Impedance.curve, sample_time and
\* sample_count change neither the header nor any stored curve table;
\* VFP600.curve changes nothing but the T column of the stored curve it
\* selects, which it sets (adding the column when the table has none) to row
\* index times sample period; the header, the other curves, the other columns
\* and the rows stay as loaded, and a load stores the file's header and
\* curves again.
C7_OnlyTimeColumnChanges ==
    /\ [][(loaded /\ result'.op \in Accessors) =>
            /\ header' = header
            /\ loaded'
            /\ Len(curves') = Len(curves)
            /\ \A k \in 1..Len(curves) :
                   \/ curves'[k] = curves[k]
                   \/ /\ klass = "VFP600"
                      /\ result'.op = "curve"
                      /\ result'.kind \in {"ok", "KeyError"}
                      /\ k = (IF result'.arg >= 0 THEN result'.arg + 1
                              ELSE Len(curves) + result'.arg + 1)
                      /\ IsRetimed(curves[k], curves'[k], header)
            /\ (klass = "VFP600" /\ result'.op = "curve" /\ result'.kind = "ok") =>
                   LET k == IF result'.arg >= 0 THEN result'.arg + 1
                            ELSE Len(curves) + result'.arg + 1
                   IN  IsRetimed(curves[k], curves'[k], header)]_vars
    /\ [][(result'.op = "load" /\ result'.kind = "ok") =>
            (header' = file.header /\ curves' = file.curves /\ loaded')]_vars

C7_Witness ==
    /\ loaded
    /\ klass = "VFP600"
    /\ result.op = "curve"
    /\ result.kind = "ok"
    /\ Len(curves) = 2
    /\ curves[1] = file.curves[1]
    /\ curves[2] # file.curves[2]
    /\ ~HasColumns(file.curves[2], <<"T">>)
    /\ curves[2].nrows = 2

====
